---- MODULE Spec2Model ----
(***************************************************************************)
(* Model of the SendPulse client of package smtp: the token lifecycle      *)
(* (Init, getToken), the request dispatcher (sendRequest) with its         *)
(* refresh-on-401 path, the argument validation of the higher-level        *)
(* methods and SendRawRequest.                                             *)
(*                                                                         *)
(* The client is single-threaded and blocks only inside httpClient.Do, so  *)
(* an action is either the start of a call of the public API (running up   *)
(* to the first HTTP request or to its return) or the arrival of the       *)
(* answer to the request in flight (running up to the next HTTP request or *)
(* to the return of the public call).  The Go call stack is kept           *)
(* explicitly, because sendRequest and getToken call each other.           *)
(***************************************************************************)
EXTENDS Integers, Sequences, FiniteSets, TLC

VARIABLES
    Token,      \* Client.Token, the in-memory bearer token
    file,       \* content of <TokenStorage>/<md5 hex>, or NoFile
    stack,      \* the Go call stack below the public call (frames)
    op,         \* the public call in progress or last finished
    ret,        \* what the callee (sendRequest / getToken) returned to op
    result,     \* what the public call returned to its caller
    hist,       \* per-call observations: requests issued, answers received
    inited,     \* Init has returned nil at least once
    clients,    \* two Clients made by NewClient with one TokenStorage
    dir,        \* the files of that TokenStorage: file name -> content
    touched     \* per client, the names of the files it has read or written

shared == <<clients, dir, touched>>
vars == <<Token, file, stack, op, ret, result, hist, inited, clients, dir,
          touched>>

-----------------------------------------------------------------------------
(* Bounds of the model *)

\* longest UserID and Secret of the clients sharing a directory
MaxLen == 2

\* largest number of 401 answers without invalid_client the server gives
\* within one public call (each of them makes the client issue more requests)
Max401 == 2

-----------------------------------------------------------------------------
(* Values *)

NoFile == "<nofile>"
NoAuth == "<none>"
StoredTokens == {"t0"}                  \* written by an earlier process
ServerTokens == {"t1"}                  \* access_token values of the server

TokenPath == "oauth/access_token"
TokenData == "grant"
BadPath   == "%zz"                      \* url.Parse rejects the escape

\* A response body, by what the code reads of it: its JSON shape, the
\* access_token member (the empty string when absent) and whether the text
\* contains "invalid_client".
Body(shape, tok, ic) == [shape |-> shape, access_token |-> tok, ic |-> ic]
NoBody      == Body("none", "", FALSE)
BodyTok(t)  == Body("object", t, FALSE)
BodyObject  == Body("object", "", FALSE)
BodyArray   == Body("array", "", FALSE)
BodyText    == Body("text", "", FALSE)
BodyInvalid == Body("object", "", TRUE)
Bodies == {BodyTok(t) : t \in ServerTokens}
              \cup {BodyObject, BodyArray, BodyText, BodyInvalid}

\* what httpClient.Do and io.ReadAll can produce for one request
Resp(net, status, body) == [net |-> net, status |-> status, body |-> body]
NoResp == Resp("none", 0, NoBody)
\* the answers of the server: a 200 with each kind of body, a 401 with and
\* without the invalid_client marker, a 500 with a JSON error body
Answers ==
    {Resp("ok", 200, b) : b \in Bodies \ {BodyInvalid}}
        \cup {Resp("ok", 401, BodyObject), Resp("ok", 401, BodyInvalid)}
        \cup {Resp("ok", 500, BodyObject)}
NetFailures == {Resp("do_failed", 0, NoBody), Resp("read_failed", 0, NoBody)}

\* a Go (value, error) pair; err is the chain of wrapped errors, <<>> is nil
Ok(body)     == [err |-> <<>>, body |-> body]
Err(e)       == [err |-> <<e>>, body |-> NoBody]
Wrap(e, r)   == [err |-> <<e>> \o r.err, body |-> NoBody]
NoRet        == [err |-> <<"pending">>, body |-> NoBody]

Frame(fn, path, method, data, useToken, orig, pc) ==
    [fn |-> fn, path |-> path, method |-> method, data |-> data,
     useToken |-> useToken, orig |-> orig, pc |-> pc]

Req(path, method, data, auth, orig, retry) ==
    [path |-> path, method |-> method, data |-> data, auth |-> auth,
     orig |-> orig, retry |-> retry]
NoReq == Req("", "", "", NoAuth, FALSE, FALSE)

-----------------------------------------------------------------------------
(* sendRequest *)

\* json.Marshal(data) succeeds
Marshalable(data) == data # "unmarshalable"

\* http.NewRequest accepts the URL APIUrl + "/" + path
ValidURL(path) == path # BadPath

\* the Authorization header of a request, NoAuth when none is set
AuthHeader(useToken, tok) == IF useToken /\ tok # "" THEN tok ELSE NoAuth

\* a variant that takes every error status for an expired token
AnyErrorStatus(status) == status >= 400

\* resp.StatusCode == 401
IsUnauthorized(status) == status = 401

\* a variant that never sees the invalid_client marker
InvalidClientIgnored(body) == FALSE

\* strings.Contains(string(respBody), "invalid_client")
IsInvalidClient(body) == body.ic

\* getToken's json.Unmarshal into TokenResponse succeeds
ParsesAsToken(body) == body.shape = "object"

\* a variant that drops the error of getToken
RefreshErrorIgnored(err) == FALSE

\* the caller of getToken in sendRequest treats its result as a failure
RefreshFailed(err) == err # <<>>

Top(m)  == m.stack[Len(m.stack)]
Pop(m)  == [m EXCEPT !.stack = SubSeq(@, 1, Len(@) - 1)]
SetPc(m, pc) == [m EXCEPT !.stack[Len(m.stack)].pc = pc]

\* os.WriteFile(tokenPath, data): w is what the file system does.  The file
\* is opened with O_TRUNC and then written: a failure of the open leaves it
\* as it was, a failure of the write leaves it truncated.
WriteOutcomes == {"ok", "open_failed", "write_failed"}
WriteFile(f, data, w) ==
    CASE w = "ok" -> data
      [] w = "open_failed" -> f
      [] OTHER -> ""

\* getToken after its sendRequest returned r.  Yields the client state and
\* the error getToken returns.
GetTokenAfterSend(m, r, w) ==
    IF r.err # <<>> THEN [m |-> m, r |-> [err |-> r.err, body |-> NoBody]]
    ELSE IF ~ParsesAsToken(r.body) THEN [m |-> m, r |-> Err("parse")]
    ELSE LET m1 == [m EXCEPT !.Token = r.body.access_token,
                             !.lastTok = r.body.access_token]
             m2 == [m1 EXCEPT !.file = WriteFile(m.file, m1.Token, w)]
         IN [m |-> m2, r |-> IF w = "ok" THEN Ok(NoBody) ELSE Err("write")]

RECURSIVE DoSend(_, _, _, _, _, _, _, _)
RECURSIVE Return(_, _, _)

\* sendRequest from its entry to httpClient.Do (the frame then waits for the
\* answer) or to an early error return.
DoSend(m, path, method, data, useToken, orig, retry, w) ==
    IF ~Marshalable(data) THEN Return(m, Err("marshal"), w)
    ELSE IF ~ValidURL(path) THEN Return(m, Err("newrequest"), w)
    ELSE LET req == Req(path, method, data, AuthHeader(useToken, m.Token),
                        orig, retry)
         IN [m EXCEPT
               !.stack = Append(@, Frame("sendRequest", path, method, data,
                                         useToken, orig, "Do")),
               !.nreq = @ + 1,
               !.nretry = @ + (IF retry THEN 1 ELSE 0),
               !.ntokreq = @ + (IF path = TokenPath THEN 1 ELSE 0),
               !.firstReq = IF m.nreq = 0 THEN req ELSE @,
               !.lastReq = req]

\* a callee returns r to the frame on top of the stack
Return(m, r, w) ==
    IF m.stack = <<>> THEN [m EXCEPT !.ret = r]
    ELSE LET top == Top(m) IN
         CASE top.fn = "getToken" ->
                LET g == GetTokenAfterSend(Pop(m), r, w) IN Return(g.m, g.r, w)
           [] top.fn = "sendRequest" /\ top.pc = "getToken" ->
                IF RefreshFailed(r.err)
                THEN Return(Pop(m), Wrap("refresh", r), w)
                ELSE DoSend(SetPc(m, "retry"), top.path, top.method, top.data,
                            TRUE, top.orig, TRUE, w)
           [] OTHER -> Return(Pop(m), r, w)

\* getToken from its entry to the token request
CallGetToken(m, w) ==
    DoSend([m EXCEPT !.stack = Append(@, Frame("getToken", "", "", "", FALSE,
                                               FALSE, "sendRequest")),
                     !.nfetch = @ + 1],
           TokenPath, "POST", TokenData, FALSE, FALSE, FALSE, w)

\* sendRequest after httpClient.Do returned a
HandleResponse(m, a, w) ==
    IF a.net # "ok" THEN Return(Pop(m), Err("transport"), w)
    ELSE IF IsUnauthorized(a.status)
         THEN IF IsInvalidClient(a.body)
              THEN Return(Pop(m), Err("credentials"), w)
              ELSE CallGetToken(SetPc(m, "getToken"), w)
         ELSE Return(Pop(m), Ok(a.body), w)

-----------------------------------------------------------------------------
(* The public methods *)

Methods == {"ListAddressBooks", "CreateAddressBook", "EditAddressBook",
            "RemoveAddressBook", "GetBookInfo", "GetEmailsFromBook",
            "AddEmails", "RemoveEmails", "GetEmailInfo",
            "UpdateEmailVariables", "ListCampaigns", "GetCampaignInfo",
            "CreateCampaign", "CancelCampaign", "SMTPSendMail",
            "SMTPListEmails", "SMSAddPhones", "SMSAddPhonesWithVariables",
            "SMSSend", "SMSAddCampaign", "GetBalance"}

\* The arguments of a method, by what its checks read: up to four strings
\* ("" or not), one id (0 or not) and one collection (nil, empty, non-empty,
\* or holding a value json.Marshal rejects).  An argument a method does not
\* have keeps its default.
Args(s1, s2, s3, s4, id, coll) ==
    [s1 |-> s1, s2 |-> s2, s3 |-> s3, s4 |-> s4, id |-> id, coll |-> coll]
DefaultArgs == Args("x", "x", "x", "x", 1, "full")
Strs == {"", "x"}
Ids  == {0, 1}

\* number of string arguments the method requires
NStr(name) ==
    CASE name \in {"CreateAddressBook", "EditAddressBook", "GetEmailInfo",
                   "UpdateEmailVariables"} -> 1
      [] name \in {"SMSSend", "SMSAddCampaign"} -> 2
      [] name = "CreateCampaign" -> 4
      [] OTHER -> 0

HasId(name) ==
    name \in {"EditAddressBook", "RemoveAddressBook", "GetBookInfo",
              "GetEmailsFromBook", "AddEmails", "RemoveEmails", "GetEmailInfo",
              "UpdateEmailVariables", "GetCampaignInfo", "CreateCampaign",
              "CancelCampaign", "SMSAddPhones", "SMSAddPhonesWithVariables",
              "SMSAddCampaign"}

\* the values the method's collection argument can take
Colls(name) ==
    CASE name \in {"RemoveEmails", "SMSAddPhones", "SMSSend"} ->
             {"nil", "empty", "full"}                  \* []string
      [] name \in {"AddEmails", "SMSAddPhonesWithVariables",
                   "UpdateEmailVariables", "SMTPSendMail"} ->
             {"nil", "empty", "full", "unmarshalable"}  \* holds interface{}
      [] OTHER -> {"full"}

\* len(coll) == 0
EmptyLen(coll) == coll \in {"nil", "empty"}

Count(b) == IF b THEN 1 ELSE 0

\* how many arguments the method requires, and how many of them a leaves at
\* the zero value
NRequired(name) ==
    NStr(name) + Count(HasId(name)) + Count(Colls(name) # {"full"})
NZero(name, a) ==
    Count(NStr(name) >= 1 /\ a.s1 = "") + Count(NStr(name) >= 2 /\ a.s2 = "")
      + Count(NStr(name) >= 3 /\ a.s3 = "") + Count(NStr(name) >= 4 /\ a.s4 = "")
      + Count(HasId(name) /\ a.id = 0)
      + Count(Colls(name) # {"full"} /\ EmptyLen(a.coll))

\* the argument lists tried: all present, one missing, all missing
ArgsFor(name) ==
    {a \in [s1 : Strs, s2 : Strs, s3 : Strs, s4 : Strs, id : Ids,
            coll : Colls(name)] :
        /\ NStr(name) < 1 => a.s1 = "x"
        /\ NStr(name) < 2 => a.s2 = "x"
        /\ NStr(name) < 3 => a.s3 = "x"
        /\ NStr(name) < 4 => a.s4 = "x"
        /\ ~HasId(name) => a.id = 1
        /\ NZero(name, a) <= 1 \/ NZero(name, a) = NRequired(name)}

\* the check at the head of SMTPSendMail
SMTPSendMailRejects(a) == a.coll = "nil"

\* the check at the head of each method: TRUE when it returns its error
Rejects(name, a) ==
    CASE name = "CreateAddressBook" -> a.s1 = ""
      [] name = "EditAddressBook" -> a.id = 0 \/ a.s1 = ""
      [] name \in {"RemoveAddressBook", "GetBookInfo", "GetEmailsFromBook",
                   "GetCampaignInfo", "CancelCampaign"} -> a.id = 0
      [] name \in {"AddEmails", "RemoveEmails", "SMSAddPhones",
                   "SMSAddPhonesWithVariables"} ->
             a.id = 0 \/ EmptyLen(a.coll)
      [] name = "GetEmailInfo" -> a.id = 0 \/ a.s1 = ""
      [] name = "UpdateEmailVariables" ->
             a.id = 0 \/ a.s1 = "" \/ EmptyLen(a.coll)
      [] name = "CreateCampaign" ->
             a.s1 = "" \/ a.s2 = "" \/ a.s3 = "" \/ a.s4 = "" \/ a.id = 0
      [] name = "SMTPSendMail" -> SMTPSendMailRejects(a)
      [] name = "SMSSend" -> a.s1 = "" \/ EmptyLen(a.coll) \/ a.s2 = ""
      [] name = "SMSAddCampaign" -> a.s1 = "" \/ a.id = 0 \/ a.s2 = ""
      [] OTHER -> FALSE

\* the method's own json.Marshal of its collection fails
SerializeFails(name, a) ==
    /\ name \in {"AddEmails", "SMSAddPhonesWithVariables", "SMTPSendMail"}
    /\ a.coll = "unmarshalable"

MethodPath(name) ==
    CASE name \in {"ListAddressBooks", "CreateAddressBook"} -> "addressbooks"
      [] name \in {"EditAddressBook", "RemoveAddressBook", "GetBookInfo"} ->
             "addressbooks/%d"
      [] name \in {"GetEmailsFromBook", "AddEmails", "RemoveEmails"} ->
             "addressbooks/%d/emails"
      [] name = "GetEmailInfo" -> "addressbooks/%d/emails/%s"
      [] name = "UpdateEmailVariables" -> "addressbooks/%d/emails/variable"
      [] name \in {"ListCampaigns", "CreateCampaign"} -> "campaigns"
      [] name \in {"GetCampaignInfo", "CancelCampaign"} -> "campaigns/%d"
      [] name \in {"SMTPSendMail", "SMTPListEmails"} -> "smtp/emails"
      [] name = "SMSAddPhones" -> "sms/numbers"
      [] name = "SMSAddPhonesWithVariables" -> "sms/numbers/variables"
      [] name = "SMSSend" -> "sms/send"
      [] name = "SMSAddCampaign" -> "sms/campaigns"
      [] OTHER -> "balance"

MethodVerb(name) ==
    CASE name \in {"ListAddressBooks", "GetBookInfo", "GetEmailsFromBook",
                   "GetEmailInfo", "ListCampaigns", "GetCampaignInfo",
                   "SMTPListEmails", "GetBalance"} -> "GET"
      [] name = "EditAddressBook" -> "PUT"
      [] name \in {"RemoveAddressBook", "RemoveEmails", "CancelCampaign"} ->
             "DELETE"
      [] OTHER -> "POST"

\* the data handed to sendRequest: nil, a payload, or one json.Marshal rejects
MethodData(name, a) ==
    CASE name \in {"RemoveAddressBook", "GetBookInfo", "GetEmailsFromBook",
                   "GetEmailInfo", "GetCampaignInfo", "CancelCampaign",
                   "GetBalance"} -> "nil"
      [] name = "UpdateEmailVariables" /\ a.coll = "unmarshalable" ->
             "unmarshalable"
      [] OTHER -> "payload"

\* the JSON shape the method unmarshals the answer into; "none" when it
\* returns only the error of sendRequest
DecodeShape(name) ==
    CASE name \in {"ListAddressBooks", "GetEmailsFromBook", "ListCampaigns",
                   "SMTPListEmails"} -> "array"
      [] name \in {"CreateAddressBook", "GetBookInfo", "GetEmailInfo",
                   "GetCampaignInfo", "CreateCampaign", "SMSAddCampaign",
                   "GetBalance"} -> "object"
      [] OTHER -> "none"

\* what the public call returns, given what its callee returned
Post(name, r) ==
    IF r.err # <<>> THEN r
    ELSE IF name = "SendRawRequest" THEN r
    ELSE IF name = "Init" \/ DecodeShape(name) = "none" THEN Ok(NoBody)
    ELSE IF r.body.shape = DecodeShape(name) THEN r
    ELSE Err("decode")

\* SendRawRequest's allow-list
AllowedMethods == {"POST", "GET", "DELETE", "PUT", "PATCH"}
\* a variant whose list lacks PATCH
MethodAllowedNoPatch(method) == method \in AllowedMethods \ {"PATCH"}

MethodAllowed(method) == method \in AllowedMethods

\* a variant that does not take over the content of the file
LoadTokenDropped(tok, f) == tok

\* Init: the token after the attempt to read the token file
LoadToken(tok, f) == IF f # NoFile THEN f ELSE tok

\* Init: whether a new token is fetched
NeedsFetch(tok) == tok = ""

-----------------------------------------------------------------------------
(* The name of the token file *)

\* UserID and Secret are strings, here over two characters
Alphabet == {"a", ":"}
Strings == UNION {[1..n -> Alphabet] : n \in 1..MaxLen}

Clients == 1..2
NewClient(userID, secret) ==
    [UserID |-> userID, Secret |-> secret, Token |-> ""]

\* c.UserID + "::" + c.Secret
HashInput(c) == c.UserID \o <<":", ":">> \o c.Secret

\* md5.Sum followed by "%x", taken as injective: the string read as a
\* numeral without zero digits
Digit(ch) == IF ch = "a" THEN 1 ELSE 2

RECURSIVE Md5Hex(_)
Md5Hex(str) ==
    IF str = <<>> THEN 0 ELSE Digit(Head(str)) + 3 * Md5Hex(Tail(str))

\* hashName, the name of the client's token file in TokenStorage
HashName(c) == Md5Hex(HashInput(c))

\* os.ReadFile(tokenPath) in a directory d
ReadFile(d, name) == IF name \in DOMAIN d THEN d[name] ELSE NoFile

\* the directory d once the file name holds data
Put(d, name, data) ==
    [n \in DOMAIN d \cup {name} |-> IF n = name THEN data ELSE d[n]]

-----------------------------------------------------------------------------
(* State *)

NoOp == [name |-> "none", path |-> "", method |-> "", data |-> "",
         a |-> DefaultArgs]
Call(name, path, method, data, a) ==
    [name |-> name, path |-> path, method |-> method, data |-> data, a |-> a]

\* the observations of one public call, as it starts
NewHist(tok, f) ==
    [nreq |-> 0, nans |-> 0, nretry |-> 0, ntokreq |-> 0, nfetch |-> 0,
     n401 |-> 0,
     firstReq |-> NoReq, lastReq |-> NoReq, lastTok |-> "",
     first |-> NoResp, last |-> NoResp, netfail |-> FALSE,
     Token0 |-> tok, file0 |-> f]

\* the client and the observations as one record, for the operators above
Machine(tok, f, st, r, h) ==
    [Token |-> tok, file |-> f, stack |-> st, ret |-> r,
     nreq |-> h.nreq, nans |-> h.nans, nretry |-> h.nretry,
     ntokreq |-> h.ntokreq,
     nfetch |-> h.nfetch, n401 |-> h.n401, firstReq |-> h.firstReq,
     lastReq |-> h.lastReq, lastTok |-> h.lastTok, first |-> h.first,
     last |-> h.last, netfail |-> h.netfail, Token0 |-> h.Token0,
     file0 |-> h.file0]

HistOf(m) ==
    [nreq |-> m.nreq, nans |-> m.nans, nretry |-> m.nretry,
     ntokreq |-> m.ntokreq,
     nfetch |-> m.nfetch, n401 |-> m.n401, firstReq |-> m.firstReq,
     lastReq |-> m.lastReq, lastTok |-> m.lastTok, first |-> m.first,
     last |-> m.last, netfail |-> m.netfail, Token0 |-> m.Token0,
     file0 |-> m.file0]

\* the state after a step that left the client as m in public call o
Install(m, o) ==
    /\ Token' = m.Token
    /\ file' = m.file
    /\ stack' = m.stack
    /\ op' = o
    /\ ret' = m.ret
    /\ result' = IF m.stack = <<>> THEN Post(o.name, m.ret) ELSE NoRet
    /\ hist' = HistOf(m)

Idle == stack = <<>>
Start(tok) == Machine(tok, file, <<>>, NoRet, NewHist(Token, file))

\* NewClient: no token in memory; the storage directory may hold the file
\* of an earlier process
Init ==
    /\ Token = ""
    /\ file \in {NoFile, ""} \cup StoredTokens
    /\ stack = <<>>
    /\ op = NoOp
    /\ ret = NoRet
    /\ result = NoRet
    /\ hist = NewHist("", file)
    /\ inited = FALSE
    /\ clients = [i \in Clients |-> NewClient(<<"a">>, <<"a">>)]
    /\ dir = <<>>
    /\ touched = [i \in Clients |-> {}]

-----------------------------------------------------------------------------
(* Actions *)

\* Client.Init.  os.MkdirAll can fail only when the directory, and with it
\* the file, does not exist.
ClientInit ==
    /\ Idle
    /\ \E mkdir \in BOOLEAN :
         /\ ~mkdir => file = NoFile
         /\ LET o == Call("Init", "", "", "", DefaultArgs)
                tok == LoadToken(Token, file)
            IN IF ~mkdir
               THEN Install([Start(Token) EXCEPT !.ret = Err("mkdir")], o)
               ELSE IF NeedsFetch(tok)
               THEN Install(CallGetToken(Start(tok), "ok"), o)
               ELSE Install([Start(tok) EXCEPT !.ret = Ok(NoBody)], o)

\* the calls of the higher-level methods, with the request each one builds
MethodCalls ==
    UNION {{Call(name, MethodPath(name), MethodVerb(name), MethodData(name, a),
                 a) : a \in ArgsFor(name)} : name \in Methods}

\* one of the higher-level methods
CallMethod ==
    /\ Idle
    /\ \E o \in MethodCalls :
         IF Rejects(o.name, o.a)
         THEN Install([Start(Token) EXCEPT !.ret = Err("validation")], o)
         ELSE IF SerializeFails(o.name, o.a)
         THEN Install([Start(Token) EXCEPT !.ret = Err("serialize")], o)
         ELSE Install(DoSend(Start(Token), o.path, o.method, o.data,
                             TRUE, TRUE, FALSE, "ok"), o)

RawPaths   == {"raw/path", BadPath}
RawMethods == AllowedMethods \cup {"TRACE", "get"}
RawData    == {"payload", "unmarshalable"}

\* the calls of SendRawRequest tried: every method with a plain request, and
\* a path and a payload the request cannot be built from
RawCalls ==
    {Call("SendRawRequest", "raw/path", method, "payload", DefaultArgs) :
        method \in RawMethods}
      \cup {Call("SendRawRequest", path, "PATCH", data, DefaultArgs) :
               path \in RawPaths, data \in RawData}

\* Client.SendRawRequest
SendRawRequest ==
    /\ Idle
    /\ \E o \in RawCalls :
         IF ~MethodAllowed(o.method)
         THEN Install([Start(Token) EXCEPT !.ret = Err("validation")], o)
         ELSE Install(DoSend(Start(Token), o.path, o.method, o.data,
                             TRUE, TRUE, FALSE, "ok"), o)

Current == Machine(Token, file, stack, ret, hist)

\* the answer a arrives at the sendRequest that waits in httpClient.Do
Observe(m, a) ==
    [m EXCEPT !.first = IF m.first = NoResp THEN a ELSE @,
              !.last = a,
              !.nans = @ + 1,
              !.netfail = @ \/ a.net # "ok",
              !.n401 = @ + (IF a.net = "ok" /\ a.status = 401 /\ ~a.body.ic
                            THEN 1 ELSE 0)]

\* the answer a to the request in flight makes getToken write the token file
WritesToken(m, a) ==
    /\ Len(m.stack) > 1
    /\ m.stack[Len(m.stack) - 1].fn = "getToken"
    /\ ~IsUnauthorized(a.status)
    /\ ParsesAsToken(a.body)

\* the server answers the request in flight
Respond ==
    /\ ~Idle
    /\ \E a \in Answers :
       \E w \in (IF WritesToken(Current, a) THEN WriteOutcomes ELSE {"ok"}) :
         /\ (a.status = 401 /\ ~a.body.ic) => hist.n401 < Max401
         /\ Install(HandleResponse(Observe(Current, a), a, w), op)

\* the request in flight fails in httpClient.Do or in io.ReadAll
NetworkFailure ==
    /\ ~Idle
    /\ \E a \in NetFailures :
         Install(HandleResponse(Observe(Current, a), a, "ok"), op)

\* the calls and answers of one client; the observation inited is not kept
Next ==
    \/ ClientInit /\ UNCHANGED <<inited, shared>>
    \/ CallMethod /\ UNCHANGED <<inited, shared>>
    \/ SendRawRequest /\ UNCHANGED <<inited, shared>>
    \/ Respond /\ UNCHANGED <<inited, shared>>
    \/ NetworkFailure /\ UNCHANGED <<inited, shared>>

Spec == Init /\ [][Next]_vars

\* the same steps, observing whether Init has returned nil
InitReturnedNil == op'.name = "Init" /\ stack' = <<>> /\ result'.err = <<>>
Observed == inited' = (inited \/ InitReturnedNil)

NextObserved ==
    \/ ClientInit /\ Observed /\ UNCHANGED shared
    \/ CallMethod /\ Observed /\ UNCHANGED shared
    \/ SendRawRequest /\ Observed /\ UNCHANGED shared
    \/ Respond /\ Observed /\ UNCHANGED shared
    \/ NetworkFailure /\ Observed /\ UNCHANGED shared

SpecObserved == Init /\ [][NextObserved]_vars

-----------------------------------------------------------------------------
(* Two clients with one storage directory.  Each runs in its own process   *)
(* and is used sequentially; a step is a whole Init or a whole getToken of *)
(* one of them, with the outcome of its token request and of its write.    *)

\* getToken of client i once the token endpoint answered with token t: the
\* token is kept in memory and written to the file named by the credentials
StoreToken(i, t, w) ==
    LET name == HashName(clients[i])
        old == ReadFile(dir, name)
        new == WriteFile(old, t, w)
    IN  /\ clients' = [clients EXCEPT ![i].Token = t]
        /\ dir' = IF new = NoFile THEN dir ELSE Put(dir, name, new)
        /\ touched' = [touched EXCEPT
                          ![i] = IF w = "open_failed" THEN @
                                 ELSE @ \cup {name}]

\* Init of client i: the file named by its credentials is read when it is
\* there; an empty token is replaced by a fetched one, got telling whether
\* the token request succeeded
SharedInit ==
    \E i \in Clients, got \in BOOLEAN, t \in ServerTokens,
       w \in WriteOutcomes :
        LET name == HashName(clients[i])
            data == ReadFile(dir, name)
            tok == LoadToken(clients[i].Token, data)
        IN  IF NeedsFetch(tok) /\ got
            THEN StoreToken(i, t, w)
            ELSE /\ clients' = [clients EXCEPT ![i].Token = tok]
                 /\ dir' = dir
                 /\ touched' = [touched EXCEPT
                                   ![i] = IF data = NoFile THEN @
                                          ELSE @ \cup {name}]

\* getToken of client i on the refresh path of sendRequest
SharedGetToken ==
    \E i \in Clients, t \in ServerTokens, w \in WriteOutcomes :
        StoreToken(i, t, w)

SharedStart ==
    /\ Token = ""
    /\ file = NoFile
    /\ stack = <<>>
    /\ op = NoOp
    /\ ret = NoRet
    /\ result = NoRet
    /\ hist = NewHist("", NoFile)
    /\ inited = FALSE
    /\ clients \in [Clients -> {NewClient(u, x) : u \in Strings, x \in Strings}]
    /\ dir = <<>>
    /\ touched = [i \in Clients |-> {}]

SharedNext ==
    \/ SharedInit /\ UNCHANGED <<Token, file, stack, op, ret, result, hist,
                                 inited>>
    \/ SharedGetToken /\ UNCHANGED <<Token, file, stack, op, ret, result,
                                     hist, inited>>

SharedSpec == SharedStart /\ [][SharedNext]_vars

-----------------------------------------------------------------------------
(* Properties *)

\* the public call hands its request to sendRequest itself (Init calls
\* getToken, which does)
IsSend == op.name \in Methods \cup {"SendRawRequest"}

Refresh401(a) == a.net = "ok" /\ a.status = 401 /\ ~a.body.ic
Invalid401(a) == a.net = "ok" /\ a.status = 401 /\ a.body.ic

LastErr(r) == r.err[Len(r.err)]

\* C1: a Send call whose first answer is a 401 without invalid_client runs
\* the refresh-and-retry at most once: it calls getToken at most once and
\* re-issues its request at most once, whatever the server answers to the
\* token request and to the retried request.
C1_RefreshAtMostOnce ==
    (IsSend /\ Refresh401(hist.first)) =>
        (hist.nfetch <= 1 /\ hist.nretry <= 1)

\* C2: no request issued for a Send call with useToken = false, the first
\* one or one re-issued after a refresh, carries an Authorization header.
C2_NoAuthWithoutUseToken ==
    (hist.nreq > 0 /\ ~hist.lastReq.orig) => hist.lastReq.auth = NoAuth

\* C3: a sendRequest that receives a 401 with invalid_client ends the public
\* call with the credentials error and nothing is issued after that answer;
\* when it is the first answer to a Send call there was no token request, no
\* retry, and the token and the token file are as before the call.
C3_InvalidClientNoRefresh ==
    /\ Invalid401(hist.last) =>
          (Idle /\ LastErr(ret) = "credentials" /\ hist.nreq = hist.nans)
    /\ (IsSend /\ Invalid401(hist.first)) =>
          /\ Idle
          /\ ret = Err("credentials")
          /\ hist.nreq = 1 /\ hist.nfetch = 0 /\ hist.ntokreq = 0
          /\ hist.nretry = 0
          /\ Token = hist.Token0 /\ file = hist.file0

C3_Witness ==
    /\ op.name = "SMTPSendMail" /\ Invalid401(hist.first)
    /\ Token = "t1" /\ file = "t1" /\ result = Err("credentials")

\* C4: after a first 401 without invalid_client and a getToken that returned
\* nil, the re-issued request has the path, method and data of the call and
\* carries the token just fetched as its bearer credential; a 200 answer to
\* it is returned as the result of the call, with no error.
C4_RetryCarriesNewToken ==
    (IsSend /\ Refresh401(hist.first) /\ hist.nretry = 1 /\ hist.nfetch = 1) =>
        /\ hist.lastReq.retry
        /\ hist.lastReq.path = op.path
        /\ hist.lastReq.method = op.method
        /\ hist.lastReq.data = op.data
        /\ hist.lastReq.auth = hist.lastTok
        /\ (Idle /\ hist.nans = 3 /\ hist.last.status = 200) =>
               ret = Ok(hist.last.body)

\* C5: with a non-empty token file, Init adopts its content, returns nil,
\* issues no request and leaves the file as it was.
C5_InitAdoptsFile ==
    (op.name = "Init" /\ hist.file0 \notin {NoFile, ""}) =>
        /\ Idle
        /\ result = Ok(NoBody)
        /\ Token = hist.file0
        /\ file = hist.file0
        /\ hist.nreq = 0

C5_Witness ==
    /\ op.name = "Init" /\ hist.file0 = "t0" /\ hist.Token0 # "t0"
    /\ Token = "t0" /\ result = Ok(NoBody)

\* C6: with no token file, or an empty one, Init issues exactly one token
\* request, and when it returns nil the token in memory and the content of
\* the file are the token the server returned.
C6_InitFetchesOnce ==
    (op.name = "Init" /\ hist.file0 \in {NoFile, ""}) =>
        /\ hist.ntokreq <= 1
        /\ (Idle /\ result.err = <<>>) =>
               /\ hist.ntokreq = 1 /\ hist.nreq = 1
               /\ Token = hist.lastTok /\ file = hist.lastTok

\* some argument the method requires is at its zero value
RequiredZero(name, a) == NZero(name, a) > 0

\* C7: a higher-level method called with a required argument at its zero
\* value returns the validation error, sends nothing and leaves the token
\* and the token file alone.
C7_ZeroArgumentRejected ==
    (op.name \in Methods /\ RequiredZero(op.name, op.a)) =>
        /\ Idle
        /\ result = Err("validation")
        /\ hist.nreq = 0
        /\ Token = hist.Token0 /\ file = hist.file0

\* C8: once a request of a call has failed at the network level the call has
\* returned an error and no request was issued after the failure; a call
\* issues a second request only after a 401 answer.
C8_NoRetryOfTransportFailure ==
    /\ hist.netfail =>
          /\ Idle
          /\ result.err # <<>> /\ LastErr(result) = "transport"
          /\ hist.last \in NetFailures
          /\ hist.nreq = hist.nans
    /\ hist.nreq > 1 => hist.n401 > 0
    /\ hist.nretry <= hist.n401

C8_Witness ==
    /\ hist.netfail /\ hist.nreq = 3 /\ hist.nretry = 1
    /\ result.err = <<"transport">>

\* C9: a Send call whose answer has a status other than 401 returns the body
\* of that answer and no error, issues no other request, fetches no token
\* and leaves the token and the token file as they were.
C9_Non401ReturnsBody ==
    (IsSend /\ hist.first.net = "ok" /\ hist.first.status # 401) =>
        /\ Idle
        /\ ret = Ok(hist.first.body)
        /\ hist.nreq = 1 /\ hist.nfetch = 0 /\ hist.ntokreq = 0
        /\ Token = hist.Token0 /\ file = hist.file0

C9_Witness ==
    /\ IsSend /\ hist.first = Resp("ok", 500, BodyObject)
    /\ ret = Ok(BodyObject) /\ Token = "t1"

\* C10: SendRawRequest with a method other than POST, GET, DELETE, PUT and
\* PATCH returns the validation error and sends nothing; with one of these
\* it enters sendRequest with its path, method and data and useToken = true.
C10_RawMethodAllowList ==
    op.name = "SendRawRequest" =>
        IF op.method \in {"POST", "GET", "DELETE", "PUT", "PATCH"}
        THEN /\ result # Err("validation")
             /\ hist.nreq = 0 =>
                    (Idle /\ ret.err \in {<<"marshal">>, <<"newrequest">>})
             /\ hist.nreq > 0 =>
                    /\ hist.firstReq.path = op.path
                    /\ hist.firstReq.method = op.method
                    /\ hist.firstReq.data = op.data
                    /\ hist.firstReq.orig
                    /\ hist.firstReq.auth =
                          (IF hist.Token0 # "" THEN hist.Token0 ELSE NoAuth)
        ELSE /\ Idle
             /\ result = Err("validation")
             /\ hist.nreq = 0

C10_Witness ==
    /\ op.name = "SendRawRequest" /\ op.method = "PATCH"
    /\ hist.nreq = 1 /\ hist.firstReq.auth = "t1"

\* the credential pair of client i
Pair(i) == <<clients[i].UserID, clients[i].Secret>>

\* C11: two clients with different credential pairs sharing one storage
\* directory never read or write the same token file.
C11_DistinctPairsDistinctFiles ==
    Pair(1) # Pair(2) => touched[1] \cap touched[2] = {}

\* C12: whenever Init has returned nil the token in memory is not empty,
\* whatever the token endpoint answered.
C12_InitSuccessHasToken ==
    (op.name = "Init" /\ Idle /\ result.err = <<>>) => Token # ""

\* C13: once Init has returned nil, whenever no call is in progress the
\* token in memory is the content of the token file; and a call whose
\* getToken failed leaves the token in memory as it was.
C13_TokenEqualsFile ==
    /\ (inited /\ Idle) => Token = file
    /\ (inited /\ Idle /\ IsSend /\ hist.nfetch = 1 /\ ret.err # <<>>
          /\ ret.err[1] = "refresh") => Token = hist.Token0

====
